---- MODULE Spec2Model ----
(***************************************************************************)
(* env-twin: the two package-manifest filters modify_package.py (the       *)
(* Script-Editor) and remove_prettier.py (the Dependency-Remover).         *)
(*                                                                         *)
(* Each filter is a process: json.load(sys.stdin), a fixed sequence of     *)
(* dictionary statements, json.dump(data, sys.stdout, indent=2).  JSON     *)
(* text is a sequence of lexical tokens, a parsed document is a tagged     *)
(* value whose objects keep insertion order (a Python dict).  A shell      *)
(* plan runs the filters one after another, feeding each one either the    *)
(* original text or the standard output of an earlier run.                 *)
(***************************************************************************)
EXTENDS Integers, Sequences, FiniteSets, TLC

VARIABLES plan, input, job, pc, data, stdout, stderr, exitcode, events, finished

vars == <<plan, input, job, pc, data, stdout, stderr, exitcode, events, finished>>

(***************************************************************************)
(* Bounds of the explored inputs.                                          *)
(***************************************************************************)
\* largest number of entries of an input `scripts` mapping
MaxScripts == 2
\* largest number of entries of an input `devDependencies` mapping
MaxDeps == 2

\* json.dump(..., indent=2)
Indent == 2

(***************************************************************************)
(* Python values produced by json.load.                                    *)
(***************************************************************************)
Obj(kv) == [t |-> "obj", kv |-> kv]
Arr(items) == [t |-> "arr", items |-> items]
Str(s) == [t |-> "str", s |-> s]
Num(n) == [t |-> "num", n |-> n]
Bool(b) == [t |-> "bool", b |-> b]
Null == [t |-> "null"]
\* float('nan'), float('inf'), float('-inf'), named by their JSON literal
Float(c) == [t |-> "float", c |-> c]

Keys(d) == { d.kv[i][1] : i \in 1..Len(d.kv) }
KeyIndex(d, k) == CHOOSE i \in 1..Len(d.kv) : d.kv[i][1] = k

\* s contains sub as a contiguous substring (str.__contains__)
Substring(sub, s) ==
  \E i \in 1..(Len(s) - Len(sub) + 1) : SubSeq(s, i, i + Len(sub) - 1) = sub

\* `k in c` for a str k: dict keys, list elements, substring of a str
PyIn(k, c) ==
  CASE c.t = "obj" -> k \in Keys(c)
    [] c.t = "arr" -> \E i \in 1..Len(c.items) : c.items[i] = Str(k)
    [] c.t = "str" -> Substring(k, c.s)
    [] OTHER -> FALSE

\* exception raised by `k in c`: int, float, bool and None are not iterable
ExcIn(c) == IF c.t \in {"obj", "arr", "str"} THEN "none" ELSE "TypeError"

\* exception raised by c[k] for a str k
ExcGetItem(c, k) ==
  IF c.t # "obj" THEN "TypeError"
  ELSE IF k \notin Keys(c) THEN "KeyError" ELSE "none"

GetItem(c, k) == c.kv[KeyIndex(c, k)][2]

\* exception raised by c[k] = v for a str k
ExcSetItem(c) == IF c.t # "obj" THEN "TypeError" ELSE "none"

\* variant: an association list, every assignment adds an entry
SetItemAppends(c, k, v) == Obj(Append(c.kv, <<k, v>>))

\* dict.__setitem__: an existing key keeps its position, a new key goes last
SetItem(c, k, v) ==
  IF k \in Keys(c)
  THEN Obj([c.kv EXCEPT ![KeyIndex(c, k)] = <<k, v>>])
  ELSE Obj(Append(c.kv, <<k, v>>))

\* exception raised by del c[k] for a str k
ExcDelItem(c, k) ==
  IF c.t # "obj" THEN "TypeError"
  ELSE IF k \notin Keys(c) THEN "KeyError" ELSE "none"

\* dict.__delitem__: the other entries keep their order
DelItem(c, k) ==
  LET i == KeyIndex(c, k)
  IN Obj(SubSeq(c.kv, 1, i - 1) \o SubSeq(c.kv, i + 1, Len(c.kv)))

(***************************************************************************)
(* json.dump(data, fp, indent=2): the token sequence of the output text.   *)
(***************************************************************************)
\* The text of a token sequence is the concatenation of its tokens' texts.
\* punctuation and the literals true, false, null, NaN, Infinity, -Infinity:
\* the text is the name
Tok(k) == [tok |-> k]
\* a string literal without escapes, in double quotes
StrTok(s) == [tok |-> "str", s |-> s]
\* an integer literal in decimal
NumTok(n) == [tok |-> "num", n |-> n]
\* one space
Sp == [tok |-> "sp"]
\* characters that start no JSON value
BadTok(s) == [tok |-> "bad", s |-> s]
\* an integer literal of more digits than int() converts (over 4300)
BigIntTok == [tok |-> "bigint"]
\* a well-formed array nested deeper than the interpreter's recursion limit
DeepTok == [tok |-> "deep"]
\* a newline followed by the indentation of nesting level `level`
NL(level) == [tok |-> "nl", indent |-> Indent * level]

RECURSIVE Dump(_, _)
RECURSIVE DumpItems(_, _, _)
RECURSIVE DumpMembers(_, _, _)

DumpItems(items, i, level) ==
  IF i > Len(items) THEN <<>>
  ELSE (IF i > 1 THEN <<Tok(","), NL(level)>> ELSE <<>>)
       \o Dump(items[i], level) \o DumpItems(items, i + 1, level)

DumpMembers(kv, i, level) ==
  IF i > Len(kv) THEN <<>>
  ELSE (IF i > 1 THEN <<Tok(","), NL(level)>> ELSE <<>>)
       \o <<StrTok(kv[i][1]), Tok(":"), Sp>> \o Dump(kv[i][2], level)
       \o DumpMembers(kv, i + 1, level)

Dump(v, level) ==
  CASE v.t = "str" -> <<StrTok(v.s)>>
    [] v.t = "num" -> <<NumTok(v.n)>>
    [] v.t = "bool" -> <<Tok(IF v.b THEN "true" ELSE "false")>>
    [] v.t = "null" -> <<Tok("null")>>
    [] v.t = "float" -> <<Tok(v.c)>>
    [] v.t = "arr" ->
         IF v.items = <<>> THEN <<Tok("["), Tok("]")>>
         ELSE <<Tok("["), NL(level + 1)>> \o DumpItems(v.items, 1, level + 1)
              \o <<NL(level), Tok("]")>>
    [] v.t = "obj" ->
         IF v.kv = <<>> THEN <<Tok("{"), Tok("}")>>
         ELSE <<Tok("{"), NL(level + 1)>> \o DumpMembers(v.kv, 1, level + 1)
              \o <<NL(level), Tok("}")>>

(***************************************************************************)
(* json.load(fp): the decoder of the standard library, over tokens.        *)
(***************************************************************************)
TokAt(s, i) == IF i <= Len(s) THEN s[i].tok ELSE "eof"

RECURSIVE SkipWs(_, _)
SkipWs(s, i) == IF TokAt(s, i) \in {"nl", "sp"} THEN SkipWs(s, i + 1) ELSE i

\* number of characters of a token's text
Width(t) ==
  CASE t.tok = "str" -> Len(t.s) + 2
    [] t.tok = "num" -> Len(ToString(t.n))
    [] t.tok = "nl" -> 1 + t.indent
    [] t.tok = "sp" -> 1
    [] t.tok = "bad" -> Len(t.s)
    [] OTHER -> Len(t.tok)

RECURSIVE Offset(_, _)
\* index (from 0) of the first character of token i, the text's length past the end
Offset(s, i) == IF i <= 1 THEN 0 ELSE Offset(s, i - 1) + Width(s[i - 1])

\* the tokens before i that hold a newline
Newlines(s, i) == { j \in 1..(i - 1) : j <= Len(s) /\ s[j].tok = "nl" }

\* JSONDecodeError.lineno: doc.count('\n', 0, pos) + 1
LineNo(s, i) == Cardinality(Newlines(s, i)) + 1

\* JSONDecodeError.colno: pos - doc.rindex('\n', 0, pos), pos + 1 on line 1
ColNo(s, i) ==
  IF Newlines(s, i) = {} THEN Offset(s, i) + 1
  ELSE LET j == CHOOSE x \in Newlines(s, i) : \A y \in Newlines(s, i) : y <= x
       IN Offset(s, i) - Offset(s, j)

Parsed(v, end) == [ok |-> TRUE, val |-> v, end |-> end]

\* JSONDecodeError(msg, doc, pos), pos the first character of token i
JSONDecodeError(msg, s, i) ==
  [ok |-> FALSE, exc |-> "JSONDecodeError", msg |-> msg, pos |-> Offset(s, i),
   lineno |-> LineNo(s, i), colno |-> ColNo(s, i)]

\* another exception of json.load: ValueError (int digit limit), RecursionError
LoadRaises(exc) == [ok |-> FALSE, exc |-> exc]

\* str(e): '%s: line %d column %d (char %d)'
ErrorText(e) ==
  e.msg \o ": line " \o ToString(e.lineno) \o " column " \o ToString(e.colno)
  \o " (char " \o ToString(e.pos) \o ")"

RECURSIVE DictOfPairs(_, _)
\* dict(pairs): a repeated key keeps its first position and its last value
DictOfPairs(pairs, i) ==
  IF i = 0 THEN Obj(<<>>)
  ELSE SetItem(DictOfPairs(pairs, i - 1), pairs[i][1], pairs[i][2])

RECURSIVE ScanOnce(_, _)
RECURSIVE ObjectMembers(_, _, _)
RECURSIVE ArrayItems(_, _, _)

\* after the key at position i
ObjectMembers(s, i, pairs) ==
  LET c == SkipWs(s, i + 1)
  IN IF TokAt(s, c) # ":" THEN JSONDecodeError("Expecting ':' delimiter", s, c)
     ELSE LET r == ScanOnce(s, SkipWs(s, c + 1))
          IN IF ~r.ok THEN r
             ELSE LET e == SkipWs(s, r.end)
                      ps == Append(pairs, <<s[i].s, r.val>>)
                  IN IF TokAt(s, e) = "}"
                     THEN Parsed(DictOfPairs(ps, Len(ps)), e + 1)
                     ELSE IF TokAt(s, e) # ","
                     THEN JSONDecodeError("Expecting ',' delimiter", s, e)
                     ELSE LET n == SkipWs(s, e + 1)
                          IN IF TokAt(s, n) # "str"
                             THEN JSONDecodeError(
                                    "Expecting property name enclosed in double quotes",
                                    s, n)
                             ELSE ObjectMembers(s, n, ps)

\* an item starts at position i
ArrayItems(s, i, items) ==
  LET r == ScanOnce(s, i)
  IN IF ~r.ok THEN r
     ELSE LET e == SkipWs(s, r.end)
              xs == Append(items, r.val)
          IN IF TokAt(s, e) = "]" THEN Parsed(Arr(xs), e + 1)
             ELSE IF TokAt(s, e) # ","
             THEN JSONDecodeError("Expecting ',' delimiter", s, e)
             ELSE ArrayItems(s, SkipWs(s, e + 1), xs)

ScanOnce(s, i) ==
  LET k == TokAt(s, i)
  IN CASE k = "str" -> Parsed(Str(s[i].s), i + 1)
       [] k = "num" -> Parsed(Num(s[i].n), i + 1)
       [] k = "true" -> Parsed(Bool(TRUE), i + 1)
       [] k = "false" -> Parsed(Bool(FALSE), i + 1)
       [] k = "null" -> Parsed(Null, i + 1)
       [] k \in {"NaN", "Infinity", "-Infinity"} -> Parsed(Float(k), i + 1)
       [] k = "bigint" -> LoadRaises("ValueError")
       [] k = "deep" -> LoadRaises("RecursionError")
       [] k = "{" ->
            LET j == SkipWs(s, i + 1)
            IN IF TokAt(s, j) = "}" THEN Parsed(Obj(<<>>), j + 1)
               ELSE IF TokAt(s, j) # "str"
               THEN JSONDecodeError(
                      "Expecting property name enclosed in double quotes", s, j)
               ELSE ObjectMembers(s, j, <<>>)
       [] k = "[" ->
            LET j == SkipWs(s, i + 1)
            IN IF TokAt(s, j) = "]" THEN Parsed(Arr(<<>>), j + 1)
               ELSE ArrayItems(s, j, <<>>)
       [] OTHER -> JSONDecodeError("Expecting value", s, i)

\* JSONDecoder.decode: one value, then nothing but whitespace
Load(s) ==
  LET r == ScanOnce(s, SkipWs(s, 1))
  IN IF ~r.ok THEN r
     ELSE IF SkipWs(s, r.end) # Len(s) + 1
     THEN JSONDecodeError("Extra data", s, SkipWs(s, r.end))
     ELSE r

(***************************************************************************)
(* The explored inputs: manifests, non-object documents, malformed text.   *)
(***************************************************************************)
ScriptKeyPool == {"lint:format", "test", "build"}
DepKeyPool == {"prettier", "typescript", "eslint"}

ScriptVal(k) ==
  CASE k = "lint:format" -> "prettier --check ."
    [] k = "test" -> "bun test"
    [] OTHER -> "tsc"

DepVal(k) ==
  CASE k = "prettier" -> "^3.0.0"
    [] k = "typescript" -> "^5.0.0"
    [] OTHER -> "^9.0.0"

\* the sequences of at most n distinct elements of S
SeqsNoRep(S, n) ==
  { q \in UNION { [1..m -> S] : m \in 0..n } :
      \A i, j \in 1..Len(q) : i # j => q[i] # q[j] }

ScriptsMappings ==
  { Obj([i \in 1..Len(ks) |-> <<ks[i], Str(ScriptVal(ks[i]))>>]) :
      ks \in SeqsNoRep(ScriptKeyPool, MaxScripts) }

DepsMappings ==
  { Obj([i \in 1..Len(ks) |-> <<ks[i], Str(DepVal(ks[i]))>>]) :
      ks \in SeqsNoRep(DepKeyPool, MaxDeps) }

Absent == [t |-> "absent"]

ScriptsNonMappings == {Arr(<<>>), Str("x"), Num(1), Bool(TRUE), Null}

DepsNonMappings ==
  {Arr(<<Str("prettier")>>), Arr(<<Str("eslint")>>), Str("prettier-plugin"),
   Str("eslint"), Num(1), Bool(FALSE), Null}

Field(k, v) == IF v = Absent THEN <<>> ELSE << <<k, v>> >>

Manifest(other, s, d) ==
  Obj((IF other THEN << <<"name", Str("env-twin")>> >> ELSE <<>>)
      \o Field("scripts", s) \o Field("devDependencies", d)
      \o (IF other THEN << <<"files", Arr(<<Str("dist")>>)>> >> ELSE <<>>))

Manifests ==
  { Manifest(o, s, d) :
      o \in BOOLEAN,
      s \in ScriptsMappings \cup ScriptsNonMappings \cup {Absent},
      d \in DepsMappings \cup DepsNonMappings \cup {Absent} }

NonObjectRoots ==
  {Arr(<<>>), Arr(<<Str("scripts")>>), Arr(<<Str("devDependencies")>>),
   Str("scripts"), Str("my devDependencies"), Str("x"), Num(1), Bool(TRUE),
   Null}

SampleText ==
  Dump(Manifest(TRUE,
                Obj(<< <<"lint:format", Str("x")>>, <<"test", Str("y")>> >>),
                Obj(<< <<"prettier", Str("^3.0.0")>> >>)), 0)

\* text that repeats keys: valid JSON, the last value of a key wins
RepeatedKeys ==
  <<Tok("{"), StrTok("scripts"), Tok(":"), NumTok(1), Tok(","),
    StrTok("devDependencies"), Tok(":"), Tok("{"),
    StrTok("prettier"), Tok(":"), StrTok("^2.0.0"), Tok(","),
    StrTok("prettier"), Tok(":"), StrTok("^3.0.0"), Tok("}"), Tok(","),
    StrTok("scripts"), Tok(":"), Tok("{"),
    StrTok("lint:format"), Tok(":"), StrTok("x"), Tok("}"), Tok("}")>>

\* the text `not json`
NotJson == <<BadTok("not"), Sp, BadTok("json")>>

Malformed ==
  { SubSeq(SampleText, 1, n) : n \in 0..(Len(SampleText) - 1) }
  \cup { NotJson,
         <<Sp, NL(1)>>,
         <<Tok("{"), Tok("}"), Sp, Tok("{"), Tok("}")>>,
         <<Tok("{"), StrTok("a"), Sp, NumTok(1), Tok("}")>>,
         <<Tok("{"), StrTok("a"), Tok(":"), NumTok(1), Tok(","), NL(0), Tok("}")>>,
         <<Tok("{"), NumTok(1), Tok(":"), NumTok(2), Tok("}")>>,
         <<Tok("["), NumTok(1), Sp, NumTok(2), Tok("]")>>,
         <<Tok("["), NumTok(1), Tok(","), Tok("]")>>,
         <<Tok("]")>>,
         <<Tok("{"), StrTok("a"), Tok(":"), Tok("NaN"), Tok(","), Tok("]")>> }

\* text with the literals json.load accepts beyond the JSON grammar
NonFinite ==
  { Dump(v, 0) :
      v \in { Float("NaN"), Float("-Infinity"),
              Obj(<< <<"a", Float("NaN")>> >>),
              Obj(<< <<"scripts", Float("Infinity")>> >>),
              Obj(<< <<"scripts", Obj(<< <<"lint:format", Float("NaN")>>,
                                         <<"test", Float("Infinity")>> >>)>>,
                     <<"devDependencies",
                       Obj(<< <<"prettier", Float("Infinity")>>,
                              <<"eslint", Float("-Infinity")>> >>)>>,
                     <<"engines", Arr(<<Float("NaN")>>)>> >>) } }

\* valid JSON on which json.load raises something else than JSONDecodeError
Unloadable ==
  { <<BigIntTok>>, <<DeepTok>>,
    <<Tok("{"), StrTok("scripts"), Tok(":"), Sp, Tok("{"), Tok("}"), Tok(","),
      Sp, StrTok("size"), Tok(":"), Sp, BigIntTok, Tok("}")>>,
    <<Tok("{"), StrTok("devDependencies"), Tok(":"), Sp, DeepTok, Tok("}")>>,
    <<Tok("["), BigIntTok, Tok(","), Tok("]")>> }

Inputs ==
  { Dump(v, 0) : v \in Manifests \cup NonObjectRoots }
  \cup Malformed \cup {RepeatedKeys} \cup NonFinite \cup Unloadable

(***************************************************************************)
(* Shell plans: each run names its filter and where its standard input     *)
(* comes from, 0 for the original text or the index of an earlier run.     *)
(***************************************************************************)
SE == "modify_package"
DR == "remove_prettier"

Run(f, src) == [filter |-> f, src |-> src]

PlanTwiceSE == <<Run(SE, 0), Run(SE, 1)>>
PlanTwiceDR == <<Run(DR, 0), Run(DR, 1)>>
PlanBothOrders == <<Run(SE, 0), Run(DR, 1), Run(DR, 0), Run(SE, 3)>>

Plans == {PlanTwiceSE, PlanTwiceDR, PlanBothOrders}

Stdin == IF plan[job].src = 0 THEN input ELSE finished[plan[job].src].stdout

Filter == plan[job].filter

(***************************************************************************)
(* The statements of the two scripts.                                      *)
(***************************************************************************)
\* f"Error decoding JSON: {e}"
DecodeErrorLine(e) == "Error decoding JSON: " \o ErrorText(e)
Traceback(exc) == "Traceback (most recent call last): " \o exc
RemovedLine == "Removed prettier from devDependencies."
NotFoundLine ==
  "prettier not found in devDependencies or devDependencies section missing."

\* an uncaught exception: the interpreter prints the traceback and exits 1
Raise(exc) ==
  /\ stderr' = Append(stderr, Traceback(exc))
  /\ exitcode' = 1
  /\ pc' = "exited"
  /\ events' = events \o <<"stderr", "exit">>
  /\ UNCHANGED <<data, stdout>>

Goto(d, next) ==
  /\ data' = d
  /\ pc' = next
  /\ UNCHANGED <<stdout, stderr, exitcode, events>>

FirstStatement(f) == IF f = SE THEN "ensure_scripts" ELSE "check_prettier"

\* try: data = json.load(sys.stdin) except json.JSONDecodeError: print; exit(1)
\* (any other exception of json.load is not caught: traceback, exit status 1)
LoadStdin ==
  /\ pc = "load"
  /\ LET r == Load(Stdin)
     IN IF r.ok
        THEN /\ data' = r.val
             /\ pc' = FirstStatement(Filter)
             /\ events' = Append(events, "read")
             /\ UNCHANGED <<stdout, stderr, exitcode>>
        ELSE /\ stderr' = Append(stderr,
                                  IF r.exc = "JSONDecodeError"
                                  THEN DecodeErrorLine(r) ELSE Traceback(r.exc))
             /\ exitcode' = 1
             /\ pc' = "exited"
             /\ events' = events \o <<"read", "stderr", "exit">>
             /\ UNCHANGED <<data, stdout>>
  /\ UNCHANGED <<plan, input, job, finished>>

\* if 'scripts' not in data: data['scripts'] = {}
ExcEnsureScripts(d) ==
  IF ExcIn(d) # "none" THEN ExcIn(d)
  ELSE IF PyIn("scripts", d) THEN "none" ELSE ExcSetItem(d)

\* variant: data = {'scripts': {}}
EnsureScriptsDataReplaces(d) ==
  IF PyIn("scripts", d) THEN d ELSE Obj(<< <<"scripts", Obj(<<>>)>> >>)

EnsureScriptsData(d) ==
  IF PyIn("scripts", d) THEN d ELSE SetItem(d, "scripts", Obj(<<>>))

EnsureScripts ==
  /\ pc = "ensure_scripts"
  /\ IF ExcEnsureScripts(data) # "none" THEN Raise(ExcEnsureScripts(data))
     ELSE Goto(EnsureScriptsData(data), "set_build")
  /\ UNCHANGED <<plan, input, job, finished>>

\* data['scripts'][k] = v
ExcSetScript(d) ==
  IF ExcGetItem(d, "scripts") # "none" THEN ExcGetItem(d, "scripts")
  ELSE ExcSetItem(GetItem(d, "scripts"))

SetScriptData(d, k, v) ==
  SetItem(d, "scripts", SetItem(GetItem(d, "scripts"), k, Str(v)))

SetScript(at, k, v, next) ==
  /\ pc = at
  /\ IF ExcSetScript(data) # "none" THEN Raise(ExcSetScript(data))
     ELSE Goto(SetScriptData(data, k, v), next)
  /\ UNCHANGED <<plan, input, job, finished>>

SetBuild == SetScript("set_build", "build", "bun build.ts", "del_lint_format")

\* if 'lint:format' in data['scripts']: del data['scripts']['lint:format']
ExcDelLintFormat(d) ==
  IF ExcGetItem(d, "scripts") # "none" THEN ExcGetItem(d, "scripts")
  ELSE ExcIn(GetItem(d, "scripts"))

\* variant: the lint:format entry is left in place
DelLintFormatDataKeeps(d) == d

DelLintFormatData(d) ==
  IF PyIn("lint:format", GetItem(d, "scripts"))
  THEN SetItem(d, "scripts", DelItem(GetItem(d, "scripts"), "lint:format"))
  ELSE d

DelLintFormat ==
  /\ pc = "del_lint_format"
  /\ IF ExcDelLintFormat(data) # "none" THEN Raise(ExcDelLintFormat(data))
     ELSE Goto(DelLintFormatData(data), "set_lint")
  /\ UNCHANGED <<plan, input, job, finished>>

SetLint == SetScript("set_lint", "lint", "bun biome lint .", "set_lint_fix")

SetLintFix ==
  SetScript("set_lint_fix", "lint:fix", "bun biome lint --apply .", "set_format")

SetFormat ==
  SetScript("set_format", "format", "bun biome format .", "set_format_fix")

SetFormatFix ==
  SetScript("set_format_fix", "format:fix", "bun biome format --write .", "dump")

\* variant: a devDependencies that is no container counts as lacking prettier
ExcCheckPrettierGuarded(d) ==
  IF ExcIn(d) # "none" THEN ExcIn(d)
  ELSE IF ~PyIn("devDependencies", d) THEN "none"
  ELSE ExcGetItem(d, "devDependencies")

\* if 'devDependencies' in data and 'prettier' in data['devDependencies']:
ExcCheckPrettier(d) ==
  IF ExcIn(d) # "none" THEN ExcIn(d)
  ELSE IF ~PyIn("devDependencies", d) THEN "none"
  ELSE IF ExcGetItem(d, "devDependencies") # "none"
  THEN ExcGetItem(d, "devDependencies")
  ELSE ExcIn(GetItem(d, "devDependencies"))

\* variant: only the presence of the section is tested
HasPrettierSectionOnly(d) == PyIn("devDependencies", d)

HasPrettier(d) ==
  /\ PyIn("devDependencies", d)
  /\ PyIn("prettier", GetItem(d, "devDependencies"))

\* variant: json.dump placed before the if statement
CheckPrettierDumpsFirst ==
  /\ pc = "check_prettier"
  /\ IF ExcCheckPrettier(data) # "none"
     THEN /\ stdout' = stdout \o Dump(data, 0)
          /\ stderr' = Append(stderr, Traceback(ExcCheckPrettier(data)))
          /\ exitcode' = 1
          /\ pc' = "exited"
          /\ events' = events \o <<"stdout", "stderr", "exit">>
          /\ data' = data
     ELSE /\ stdout' = stdout \o Dump(data, 0)
          /\ events' = Append(events, "stdout")
          /\ pc' = IF HasPrettier(data) THEN "del_prettier" ELSE "print_not_found"
          /\ UNCHANGED <<data, stderr, exitcode>>
  /\ UNCHANGED <<plan, input, job, finished>>

CheckPrettier ==
  /\ pc = "check_prettier"
  /\ IF ExcCheckPrettier(data) # "none" THEN Raise(ExcCheckPrettier(data))
     ELSE Goto(data, IF HasPrettier(data) THEN "del_prettier" ELSE "print_not_found")
  /\ UNCHANGED <<plan, input, job, finished>>

\* del data['devDependencies']['prettier']
ExcDelPrettier(d) ==
  IF ExcGetItem(d, "devDependencies") # "none"
  THEN ExcGetItem(d, "devDependencies")
  ELSE ExcDelItem(GetItem(d, "devDependencies"), "prettier")

\* variant: del data['devDependencies']
DelPrettierDataDropsSection(d) == DelItem(d, "devDependencies")

\* variant: the prettier entry is left in place
DelPrettierDataKeeps(d) == d

\* variant: data = {'devDependencies': ...}
DelPrettierDataDropsRest(d) ==
  Obj(<< <<"devDependencies",
           DelItem(GetItem(d, "devDependencies"), "prettier")>> >>)

DelPrettierData(d) ==
  SetItem(d, "devDependencies",
          DelItem(GetItem(d, "devDependencies"), "prettier"))

DelPrettier ==
  /\ pc = "del_prettier"
  /\ IF ExcDelPrettier(data) # "none" THEN Raise(ExcDelPrettier(data))
     ELSE Goto(DelPrettierData(data), "print_removed")
  /\ UNCHANGED <<plan, input, job, finished>>

PrintStderr(at, line) ==
  /\ pc = at
  /\ stderr' = Append(stderr, line)
  /\ events' = Append(events, "stderr")
  /\ pc' = "dump"
  /\ UNCHANGED <<plan, input, job, data, stdout, exitcode, finished>>

PrintRemoved == PrintStderr("print_removed", RemovedLine)

PrintNotFound == PrintStderr("print_not_found", NotFoundLine)

\* json.dump(data, sys.stdout, indent=2), the last statement: exit status 0
DumpStdout ==
  /\ pc = "dump"
  /\ stdout' = stdout \o Dump(data, 0)
  /\ events' = events \o <<"stdout", "exit">>
  /\ exitcode' = 0
  /\ pc' = "exited"
  /\ UNCHANGED <<plan, input, job, data, stderr, finished>>

\* the running process, as the shell sees it once it has exited
Current ==
  [filter |-> Filter, stdin |-> Stdin, stdout |-> stdout, stderr |-> stderr,
   exit |-> exitcode, events |-> events, data |-> data]

\* the shell collects the run and starts the next one of the plan
NextRun ==
  /\ pc = "exited"
  /\ finished' = Append(finished, Current)
  /\ IF job < Len(plan)
     THEN /\ job' = job + 1
          /\ pc' = "load"
     ELSE /\ job' = job
          /\ pc' = "idle"
  /\ data' = Null
  /\ stdout' = <<>>
  /\ stderr' = <<>>
  /\ exitcode' = 0
  /\ events' = <<>>
  /\ UNCHANGED <<plan, input>>

Init ==
  /\ plan \in Plans
  /\ input \in Inputs
  /\ job = 1
  /\ pc = "load"
  /\ data = Null
  /\ stdout = <<>>
  /\ stderr = <<>>
  /\ exitcode = 0
  /\ events = <<>>
  /\ finished = <<>>

Next ==
  \/ LoadStdin
  \/ EnsureScripts
  \/ SetBuild
  \/ DelLintFormat
  \/ SetLint
  \/ SetLintFix
  \/ SetFormat
  \/ SetFormatFix
  \/ CheckPrettier
  \/ DelPrettier
  \/ PrintRemoved
  \/ PrintNotFound
  \/ DumpStdout
  \/ NextRun

Spec == Init /\ [][Next]_vars

TypeOK ==
  /\ plan \in Plans
  /\ job \in 1..Len(plan)
  /\ exitcode \in {0, 1}
  /\ Len(finished) <= Len(plan)

(***************************************************************************)
(* Vocabulary of the properties.  A run is the record of a process that    *)
(* has exited; its input and output are read back through the decoder.     *)
(***************************************************************************)
Exited == pc = "exited"
PlanDone == pc = "idle"

IsObject(l) == l.ok /\ l.val.t = "obj"

FieldOf(o, k) == IF k \in Keys(o) THEN GetItem(o, k) ELSE Absent

AbsentOrMapping(o, k) == FieldOf(o, k).t \in {"absent", "obj"}

KeysOrNone(v) == IF v.t = "obj" THEN Keys(v) ELSE {}

NoRepeatedKey(o) == Len(o.kv) = Cardinality(Keys(o))

FixedKeys == {"build", "lint", "lint:fix", "format", "format:fix"}

FixedValue(k) ==
  CASE k = "build" -> "bun build.ts"
    [] k = "lint" -> "bun biome lint ."
    [] k = "lint:fix" -> "bun biome lint --apply ."
    [] k = "format" -> "bun biome format ."
    [] k = "format:fix" -> "bun biome format --write ."

\* kv without the entries of key k
WithoutKey(kv, k) == SelectSeq(kv, LAMBDA p : p[1] # k)

\* the document o with `prettier` taken out of its devDependencies mapping
WithoutPrettier(o) ==
  Obj([i \in 1..Len(o.kv) |->
         IF o.kv[i][1] = "devDependencies"
         THEN <<"devDependencies", Obj(WithoutKey(o.kv[i][2].kv, "prettier"))>>
         ELSE o.kv[i]])

OwnField(f) == IF f = SE THEN "scripts" ELSE "devDependencies"

\* the input object has a devDependencies mapping with the key prettier
HadPrettierKey(l) ==
  /\ IsObject(l)
  /\ "prettier" \in KeysOrNone(FieldOf(l.val, "devDependencies"))

\* the filter's own field can be worked on without a TypeError
Accepted(f, o) ==
  LET v == FieldOf(o, OwnField(f))
  IN IF f = SE THEN v.t \in {"absent", "obj"}
     ELSE \/ v.t \in {"absent", "obj"}
          \/ v.t = "arr" /\ \A i \in 1..Len(v.items) : v.items[i] # Str("prettier")
          \/ v.t = "str" /\ ~Substring("prettier", v.s)

IndexOf(ev, e) == { i \in 1..Len(ev) : ev[i] = e }

(***************************************************************************)
(* C1: whenever the Script-Editor is given an object whose `scripts` is    *)
(* absent or a mapping S, it exits 0 and the output `scripts` has exactly  *)
(* the keys (keys(S) minus lint:format) plus the five fixed ones, the five *)
(* with their fixed commands and every other key of S with its input       *)
(* value.                                                                  *)
(***************************************************************************)
C1_ScriptsContract ==
  (Exited /\ Filter = SE) =>
    LET li == Load(Stdin)
    IN (IsObject(li) /\ AbsentOrMapping(li.val, "scripts"))
       => LET lo == Load(stdout)
              S == IF "scripts" \in Keys(li.val)
                   THEN GetItem(li.val, "scripts") ELSE Obj(<<>>)
          IN /\ exitcode = 0
             /\ IsObject(lo)
             /\ FieldOf(lo.val, "scripts").t = "obj"
             /\ LET os == GetItem(lo.val, "scripts")
                IN /\ Keys(os) = (Keys(S) \ {"lint:format"}) \cup FixedKeys
                   /\ NoRepeatedKey(os)
                   /\ \A k \in FixedKeys : GetItem(os, k) = Str(FixedValue(k))
                   /\ \A k \in Keys(S) \ (FixedKeys \cup {"lint:format"}) :
                        GetItem(os, k) = GetItem(S, k)

\* a Script-Editor run over a `scripts` that holds lint:format and test
C1_Witness ==
  /\ Exited /\ Filter = SE /\ exitcode = 0
  /\ IsObject(Load(Stdin))
  /\ {"lint:format", "test"}
       \subseteq KeysOrNone(FieldOf(Load(Stdin).val, "scripts"))
  /\ "test" \in Keys(GetItem(Load(stdout).val, "scripts"))

(***************************************************************************)
(* C2: whenever the Dependency-Remover is given an object whose            *)
(* `devDependencies` is absent or a mapping D, it exits 0 and the output   *)
(* is the input with `prettier` taken out of D: no `prettier` in the       *)
(* output D, every other entry kept, nothing created, and the very input   *)
(* when there was no `prettier`.                                           *)
(***************************************************************************)
C2_PrettierRemoved ==
  (Exited /\ Filter = DR) =>
    LET li == Load(Stdin)
    IN (IsObject(li) /\ AbsentOrMapping(li.val, "devDependencies"))
       => LET lo == Load(stdout)
          IN /\ exitcode = 0
             /\ IsObject(lo)
             /\ lo.val = WithoutPrettier(li.val)
             /\ "prettier" \notin KeysOrNone(FieldOf(lo.val, "devDependencies"))
             /\ "prettier" \notin KeysOrNone(FieldOf(li.val, "devDependencies"))
                  => lo.val = li.val
             /\ ("devDependencies" \in Keys(lo.val))
                  = ("devDependencies" \in Keys(li.val))

\* a Dependency-Remover run that removed prettier and kept typescript
C2_Witness ==
  /\ Exited /\ Filter = DR /\ exitcode = 0
  /\ IsObject(Load(Stdin))
  /\ KeysOrNone(FieldOf(Load(Stdin).val, "devDependencies"))
       = {"prettier", "typescript"}
  /\ Keys(GetItem(Load(stdout).val, "devDependencies")) = {"typescript"}

(***************************************************************************)
(* C3, as claimed: a run of either filter over text that is not valid JSON *)
(* writes nothing to standard output, writes exactly one line "Error       *)
(* decoding JSON: <parser message>" to standard error and exits 1, and no  *)
(* statement after the load is ever reached.                               *)
(***************************************************************************)
\* the text with each literal of Python's own replaced by characters that
\* start no JSON value, and each value json.load cannot hold by a plain one
Standard(s) ==
  [i \in 1..Len(s) |->
     CASE s[i].tok \in {"NaN", "Infinity", "-Infinity"} -> BadTok(s[i].tok)
       [] s[i].tok = "bigint" -> NumTok(0)
       [] s[i].tok = "deep" -> Tok("null")
       [] OTHER -> s[i]]

\* the text is a document of the JSON grammar
ValidJSON(s) == Load(Standard(s)).ok

IsDecodeErrorLine(line) ==
  Len(line) > 21 /\ SubSeq(line, 1, 21) = "Error decoding JSON: "

C3_AsClaimed ==
  (pc # "load" /\ pc # "idle" /\ ~ValidJSON(Stdin))
  => /\ Exited
     /\ stdout = <<>>
     /\ Len(stderr) = 1 /\ IsDecodeErrorLine(stderr[1])
     /\ exitcode = 1
     /\ data = Null

(***************************************************************************)
(* What the code does instead: the handler runs exactly on the texts       *)
(* json.load rejects with a JSONDecodeError, and prints str(e).            *)
(***************************************************************************)
C3_DecodeErrors ==
  pc # "load" /\ pc # "idle" =>
    LET li == Load(Stdin)
    IN (~li.ok /\ li.exc = "JSONDecodeError")
       => /\ Exited
          /\ ~ValidJSON(Stdin)
          /\ stdout = <<>>
          /\ stderr = <<"Error decoding JSON: " \o ErrorText(li)>>
          /\ exitcode = 1
          /\ events = <<"read", "stderr", "exit">>
          /\ data = Null

\* both filters have been run over the text `not json`
C3_DecodeErrorsReached ==
  /\ input = NotJson
  /\ Len(finished) = 2
  /\ finished[1].filter = SE /\ finished[1].exit = 1
  /\ Exited /\ Filter = DR /\ plan[job].src = 0 /\ exitcode = 1
  /\ stderr = <<"Error decoding JSON: Expecting value: line 1 column 1 (char 0)">>

(***************************************************************************)
(* C4, as claimed: for any input object, the filter's output holds every   *)
(* top-level field of the input other than the filter's own with a deeply  *)
(* equal value, misses no top-level field of the input, and holds no new   *)
(* top-level field except `scripts`, in the Script-Editor.                 *)
(***************************************************************************)
C4_AsClaimed ==
  Exited =>
    LET li == Load(Stdin)
    IN IsObject(li)
       => LET lo == Load(stdout)
          IN /\ IsObject(lo)
             /\ \A k \in Keys(li.val) \ {OwnField(Filter)} :
                  /\ k \in Keys(lo.val)
                  /\ GetItem(lo.val, k) = GetItem(li.val, k)
             /\ Keys(li.val) \subseteq Keys(lo.val)
             /\ Keys(lo.val) \ Keys(li.val)
                  \subseteq (IF Filter = SE THEN {"scripts"} ELSE {})

(***************************************************************************)
(* C4, amended: for any input object whose own field the filter can work   *)
(* on (`scripts` absent or a mapping for the Script-Editor;                *)
(* `devDependencies` absent, a mapping, or an array or string that does    *)
(* not contain "prettier" for the Dependency-Remover) the filter exits 0   *)
(* and its output is an object in which each top-level field other than    *)
(* the filter's own has a deeply equal value, no top-level field of the    *)
(* input is missing or repeated, and the only field that may be new is     *)
(* `scripts`, in the Script-Editor.  For every other input object the      *)
(* filter exits 1 and writes no output, so that no field of the input      *)
(* appears on standard output.                                             *)
(***************************************************************************)
C4_Preservation ==
  Exited =>
    LET li == Load(Stdin)
    IN IsObject(li)
       => IF Accepted(Filter, li.val)
          THEN /\ exitcode = 0
               /\ LET lo == Load(stdout)
                  IN /\ IsObject(lo)
                     /\ NoRepeatedKey(lo.val)
                     /\ \A k \in Keys(li.val) \ {OwnField(Filter)} :
                          /\ k \in Keys(lo.val)
                          /\ GetItem(lo.val, k) = GetItem(li.val, k)
                     /\ Keys(li.val) \subseteq Keys(lo.val)
                     /\ Keys(lo.val) \ Keys(li.val)
                          \subseteq (IF Filter = SE THEN {"scripts"} ELSE {})
          ELSE /\ exitcode = 1
               /\ stdout = <<>>

\* a filter has rewritten a manifest with name, files and both sections
C4_Witness ==
  /\ Exited /\ exitcode = 0
  /\ IsObject(Load(Stdin))
  /\ Keys(Load(Stdin).val) = {"name", "files", "scripts", "devDependencies"}
  /\ Load(stdout).val # Load(Stdin).val

(***************************************************************************)
(* C5: when the Script-Editor succeeds on an input object, running it      *)
(* again on its output succeeds and writes the same output.                *)
(***************************************************************************)
C5_IdempotentSE ==
  (/\ PlanDone
   /\ plan = PlanTwiceSE
   /\ IsObject(Load(finished[1].stdin))
   /\ finished[1].exit = 0)
  => /\ finished[2].stdin = finished[1].stdout
     /\ finished[2].exit = 0
     /\ finished[2].stdout = finished[1].stdout
     /\ Load(finished[2].stdout) = Load(finished[1].stdout)

\* the first run removed lint:format and rewrote build; the second ran too
C5_Witness ==
  /\ PlanDone
  /\ plan = PlanTwiceSE
  /\ finished[1].exit = 0
  /\ IsObject(Load(finished[1].stdin))
  /\ {"lint:format", "build"}
       \subseteq KeysOrNone(FieldOf(Load(finished[1].stdin).val, "scripts"))
  /\ finished[2].exit = 0

(***************************************************************************)
(* C6: when the Dependency-Remover succeeds on an input object, running    *)
(* it again on its output writes the same output, and the second run       *)
(* reports "prettier not found ..." and changes nothing, whatever the      *)
(* first run reported.                                                     *)
(***************************************************************************)
C6_IdempotentDR ==
  (/\ PlanDone
   /\ plan = PlanTwiceDR
   /\ IsObject(Load(finished[1].stdin))
   /\ finished[1].exit = 0)
  => /\ finished[2].stdin = finished[1].stdout
     /\ finished[2].exit = 0
     /\ finished[2].stdout = finished[1].stdout
     /\ finished[2].stderr = <<NotFoundLine>>
     /\ finished[2].data = Load(finished[1].stdout).val

\* the first run took the Removed branch, the second one ran on its output
C6_Witness ==
  /\ PlanDone
  /\ plan = PlanTwiceDR
  /\ IsObject(Load(finished[1].stdin))
  /\ finished[1].stderr = <<RemovedLine>>
  /\ finished[2].exit = 0

(***************************************************************************)
(* C7, as claimed: every input that parses with an object root is          *)
(* re-emitted as an object on standard output with exit status 0, so that  *)
(* no such input ends with a non-zero status or without output.            *)
(***************************************************************************)
C7_AsClaimed ==
  Exited =>
    LET li == Load(Stdin)
    IN IsObject(li) => (exitcode = 0 /\ stdout # <<>> /\ IsObject(Load(stdout)))

(***************************************************************************)
(* C7, amended: an input that json.load parses to an object is re-emitted  *)
(* as an object with exit status 0 exactly when the filter's own field can *)
(* be worked on: `scripts` absent or a mapping for the Script-Editor;      *)
(* `devDependencies` absent, a mapping, or an array or string that does    *)
(* not contain "prettier" for the Dependency-Remover.  On every other      *)
(* object the filter dies of an uncaught TypeError: status 1, a traceback  *)
(* on standard error, nothing on standard output.  Text on which json.load *)
(* raises ends with status 1 and nothing on standard output: the decode    *)
(* error line for a JSONDecodeError, a traceback for a ValueError or a     *)
(* RecursionError.                                                         *)
(***************************************************************************)
C7_ExitContract ==
  Exited =>
    LET li == Load(Stdin)
    IN /\ ~li.ok =>
            /\ exitcode = 1
            /\ stdout = <<>>
            /\ Len(stderr) = 1
            /\ IsDecodeErrorLine(stderr[1]) = (li.exc = "JSONDecodeError")
            /\ li.exc # "JSONDecodeError" =>
                 stderr[1] = "Traceback (most recent call last): " \o li.exc
       /\ IsObject(li) =>
            IF Accepted(Filter, li.val)
            THEN exitcode = 0 /\ stdout # <<>> /\ IsObject(Load(stdout))
            ELSE /\ exitcode = 1
                 /\ stdout = <<>>
                 /\ stderr = <<"Traceback (most recent call last): TypeError">>

\* a filter has died on an object whose own field is not a mapping
C7_Witness ==
  /\ Exited /\ exitcode = 1
  /\ IsObject(Load(Stdin))
  /\ FieldOf(Load(Stdin).val, OwnField(Filter)).t = "null"

(***************************************************************************)
(* C8, as claimed (over inputs that parse to an object): every             *)
(* Dependency-Remover run whose input parses writes                        *)
(* exactly one line to standard error, "Removed prettier ..." if and only  *)
(* if the input had a devDependencies holding the key prettier and         *)
(* "prettier not found ..." otherwise, and writes the JSON to standard     *)
(* output in both cases.                                                   *)
(***************************************************************************)
C8_AsClaimed ==
  (Exited /\ Filter = DR) =>
    LET li == Load(Stdin)
    IN IsObject(li)
       => /\ stderr = <<IF HadPrettierKey(li) THEN RemovedLine ELSE NotFoundLine>>
          /\ stdout = Dump(data, 0)

(***************************************************************************)
(* C8, amended: a Dependency-Remover run whose input is an object whose   *)
(* devDependencies is absent, a mapping, or an array or string that does   *)
(* not contain "prettier" exits 0.  Every run whose input parses and that  *)
(* exits 0 writes exactly one line to standard error, "Removed prettier    *)
(* ..." if and only if the input had a devDependencies mapping holding the *)
(* key prettier (which the output no longer holds) and "prettier not       *)
(* found ..." otherwise, with nothing changed, and writes the JSON and     *)
(* nothing else to standard output.  A run whose input parses and that     *)
(* dies of an uncaught exception writes the traceback alone to standard    *)
(* error, neither diagnostic, and nothing to standard output.              *)
(***************************************************************************)
C8_Diagnostics ==
  (Exited /\ Filter = DR) =>
    LET li == Load(Stdin)
    IN li.ok =>
         /\ (IsObject(li) /\ Accepted(DR, li.val)) => exitcode = 0
         /\ IF exitcode = 0
            THEN /\ stderr = <<IF HadPrettierKey(li) THEN RemovedLine ELSE NotFoundLine>>
                 /\ stdout = Dump(data, 0)
                 /\ Load(stdout) = Parsed(data, Len(stdout) + 1)
                 /\ HadPrettierKey(li) =>
                      "prettier" \notin Keys(GetItem(data, "devDependencies"))
                 /\ ~HadPrettierKey(li) => data = li.val
            ELSE /\ Len(stderr) = 1
                 /\ stderr[1] \notin {RemovedLine, NotFoundLine}
                 /\ SubSeq(stderr[1], 1, 9) = "Traceback"
                 /\ stdout = <<>>

\* one run has taken the Removed branch and a later one the other branch
C8_Witness ==
  /\ Exited /\ Filter = DR /\ exitcode = 0
  /\ stderr = <<NotFoundLine>>
  /\ Len(finished) >= 1
  /\ finished[Len(finished)].filter = DR
  /\ finished[Len(finished)].stderr = <<RemovedLine>>

(***************************************************************************)
(* C9: for an input object whose `scripts` and `devDependencies` are each  *)
(* absent or a mapping, Script-Editor then Dependency-Remover writes the   *)
(* same manifest as Dependency-Remover then Script-Editor.                 *)
(***************************************************************************)
C9_Commute ==
  (PlanDone /\ plan = PlanBothOrders) =>
    LET li == Load(input)
    IN (/\ IsObject(li)
        /\ AbsentOrMapping(li.val, "scripts")
        /\ AbsentOrMapping(li.val, "devDependencies"))
       => /\ \A i \in 1..4 : finished[i].exit = 0
          /\ finished[2].stdin = finished[1].stdout
          /\ finished[4].stdin = finished[3].stdout
          /\ Load(finished[2].stdout).val = Load(finished[4].stdout).val

\* both orders have run over a manifest where each filter had work to do
C9_Witness ==
  /\ PlanDone /\ plan = PlanBothOrders
  /\ IsObject(Load(input))
  /\ "lint:format" \in KeysOrNone(FieldOf(Load(input).val, "scripts"))
  /\ "prettier" \in KeysOrNone(FieldOf(Load(input).val, "devDependencies"))
  /\ finished[2].exit = 0 /\ finished[4].exit = 0
  /\ finished[1].stdout # finished[3].stdout

(***************************************************************************)
(* C10: a process writes to standard output at most once, as its last step *)
(* before exiting with status 0: after the read, after every statement of  *)
(* the transformation and, in the Dependency-Remover, after the diagnostic *)
(* line.  A process that is still running, or that stopped on a parse      *)
(* error or on an uncaught exception, has written nothing to standard      *)
(* output.                                                                 *)
(***************************************************************************)
C10_WriteLast ==
  pc # "idle" =>
    /\ Cardinality(IndexOf(events, "stdout")) <= 1
    /\ \A i \in IndexOf(events, "stdout") :
         /\ i = Len(events) - 1
         /\ events[Len(events)] = "exit"
         /\ events[1] = "read"
         /\ Filter = DR => \E j \in 1..(i - 1) : events[j] = "stderr"
    /\ (stdout # <<>>) = (IndexOf(events, "stdout") # {})
    /\ stdout # <<>> => (Exited /\ exitcode = 0 /\ stdout = Dump(data, 0))
    /\ (Exited /\ exitcode # 0) => stdout = <<>>
    /\ (Exited /\ exitcode = 0) => stdout # <<>>

\* a Dependency-Remover has written its output after an earlier run died
C10_Witness ==
  /\ Exited /\ Filter = DR
  /\ events = <<"read", "stderr", "stdout", "exit">>
  /\ Len(finished) >= 1
  /\ Load(finished[1].stdin).ok
  /\ finished[1].exit = 1
  /\ finished[1].stdout = <<>>

====
